---------------------------- MODULE Spec2Model ----------------------------
(***************************************************************************)
(* Model of the Video-Extraction backend (src/main.py): the platform       *)
(* scrapers get_kg_video_info (Scraper A) and                              *)
(* get_bilibili_video_info_fallback (Scraper B), the /api/resolve handler  *)
(* resolve_video and the /api/download_merged handler download_merged.     *)
(*                                                                         *)
(* Python str values are sequences of one-character strings, so that the   *)
(* substring tests, regular expressions and the filename sanitizer are     *)
(* computed character by character as the code computes them.  Python      *)
(* dicts are records; an optional number (filesize) is <<>> for None and   *)
(* <<n>> for n.                                                            *)
(***************************************************************************)
EXTENDS Integers, Sequences, FiniteSets, TLC

VARIABLES
    pc,          \* where the handler (or the function under check) stands
    url,         \* request.url
    title,       \* request.title of /api/download_merged
    safe_title,  \* the sanitized filename stem
    resp,        \* the response of requests.get handed to Scraper A alone
    info,        \* the result of the last strategy
    calls,       \* the strategies invoked by the request, in order
    response,    \* what the caller receives
    dir,         \* the names of the files in DOWNLOAD_DIR
    nreq         \* the number of /api/download_merged requests so far

vars == <<pc, url, title, safe_title, resp, info, calls, response, dir, nreq>>

-----------------------------------------------------------------------------
(* Characters and strings                                                  *)

Letters ==
    {"a","b","c","d","e","f","g","h","i","j","k","l","m","n","o","p","q","r",
     "s","t","u","v","w","x","y","z","A","B","C","D","E","F","G","H","I","J",
     "K","L","M","N","O","P","Q","R","S","T","U","V","W","X","Y","Z"}

Digits == {"0","1","2","3","4","5","6","7","8","9"}

\* str.isalpha() / str.isdigit() on one character (ASCII part)
isalpha(c) == c \in Letters

isdigit(c) == c \in Digits

\* \s of the re module
IsSpace(c) == c \in {" ", "\t", "\n", "\r"}

\* \w of the re module
IsWord(c) == c \in Letters \cup Digits \cup {"_"}

Quotes == {"\"", "'"}

MinOf(S) == CHOOSE x \in S : \A y \in S : x <= y

\* lit occurs in s at position i
IsAt(s, lit, i) ==
    /\ i >= 1
    /\ i + Len(lit) - 1 <= Len(s)
    /\ \A k \in 1..Len(lit) : s[i + k - 1] = lit[k]

\* Python's `lit in s`
Contains(s, lit) == \E i \in 1..(Len(s) + 1) : IsAt(s, lit, i)

\* Python's s.startswith(lit)
startswith(s, lit) == IsAt(s, lit, 1)

\* first position >= from where lit occurs in s, 0 when there is none
FirstPos(s, lit, from) ==
    LET P == {i \in from..(Len(s) + 1) : IsAt(s, lit, i)}
    IN  IF P = {} THEN 0 ELSE MinOf(P)

\* first position >= from holding one of the characters cs, 0 when none
FirstChar(s, cs, from) ==
    LET P == {i \in from..Len(s) : s[i] \in cs}
    IN  IF P = {} THEN 0 ELSE MinOf(P)

\* \s* : the first position >= i that holds no whitespace (Len(s)+1 at the end)
SkipWs(s, i) ==
    MinOf({j \in i..(Len(s) + 1) : j = Len(s) + 1 \/ ~IsSpace(s[j])})

\* '.' without re.DOTALL matches anything but a newline
NoNewline(s, a, b) == \A k \in a..b : s[k] # "\n"

NoMatch == [matched |-> FALSE]

Match(g) == [matched |-> TRUE, group |-> g]

\* re.search: the match at the leftmost position where At(s, i) matches
Search(At(_, _), s) ==
    LET P == {i \in 1..Len(s) : At(s, i).matched}
    IN  IF P = {} THEN NoMatch ELSE At(s, MinOf(P))

-----------------------------------------------------------------------------
(* Scraper A: get_kg_video_info                                            *)

None == [tag |-> "None"]

\* r'window\.__DATA__\s*=\s*({.*?});' with re.DOTALL, tried at position i
DataAt(s, i) ==
    LET m == <<"w","i","n","d","o","w",".","_","_","D","A","T","A","_","_">>
        j == SkipWs(s, i + Len(m))
        k == SkipWs(s, j + 1)
    IN  IF /\ IsAt(s, m, i)
           /\ j <= Len(s) /\ s[j] = "="
           /\ k <= Len(s) /\ s[k] = "{"
        THEN LET q == FirstPos(s, <<"}",";">>, k + 1)
             IN  IF q = 0 THEN NoMatch ELSE Match(SubSeq(s, k, q))
        ELSE NoMatch

\* r'"<key>":"(.*?)"', tried at position i
FieldAt(key, s, i) ==
    LET lit == <<"\"">> \o key \o <<"\"",":","\"">>
        p == i + Len(lit)
        q == FirstChar(s, {"\""}, p)
    IN  IF IsAt(s, lit, i) /\ q # 0 /\ NoNewline(s, p, q - 1)
        THEN Match(SubSeq(s, p, q - 1))
        ELSE NoMatch

PlayurlFieldAt(s, i) == FieldAt(<<"p","l","a","y","u","r","l">>, s, i)

NickFieldAt(s, i) == FieldAt(<<"n","i","c","k">>, s, i)

ContentFieldAt(s, i) == FieldAt(<<"c","o","n","t","e","n","t">>, s, i)

CoverFieldAt(s, i) == FieldAt(<<"c","o","v","e","r">>, s, i)

\* r'playurl\s*[:=]\s*["\'](.*?)["\']', tried at position i
LoosePlayurlAt(s, i) ==
    LET lit == <<"p","l","a","y","u","r","l">>
        j == SkipWs(s, i + Len(lit))
        k == SkipWs(s, j + 1)
        q == FirstChar(s, Quotes, k + 1)
    IN  IF /\ IsAt(s, lit, i)
           /\ j <= Len(s) /\ s[j] \in {":", "="}
           /\ k <= Len(s) /\ s[k] \in Quotes
           /\ q # 0 /\ NoNewline(s, k + 1, q - 1)
        THEN Match(SubSeq(s, k + 1, q - 1))
        ELSE NoMatch

\* r'src\s*=\s*["\'](http.*?mp4.*?)["\']', tried at position i
SrcAt(s, i) ==
    LET lit == <<"s","r","c">>
        j == SkipWs(s, i + Len(lit))
        k == SkipWs(s, j + 1)
        m == FirstPos(s, <<"m","p","4">>, k + 5)
        q == FirstChar(s, Quotes, m + 3)
    IN  IF /\ IsAt(s, lit, i)
           /\ j <= Len(s) /\ s[j] = "="
           /\ k <= Len(s) /\ s[k] \in Quotes
           /\ IsAt(s, <<"h","t","t","p">>, k + 1)
           /\ m # 0 /\ q # 0 /\ NoNewline(s, k + 1, q - 1)
        THEN Match(SubSeq(s, k + 1, q - 1))
        ELSE NoMatch

\* r'<title>(.*?)</title>', tried at position i
TitleTagAt(s, i) ==
    LET open == <<"<","t","i","t","l","e",">">>
        p == i + Len(open)
        q == FirstPos(s, <<"<","/","t","i","t","l","e",">">>, p)
    IN  IF IsAt(s, open, i) /\ q # 0 /\ NoNewline(s, p, q - 1)
        THEN Match(SubSeq(s, p, q - 1))
        ELSE NoMatch

\* lines 124-143: the single Format built from a play URL
KgFormat(video_url) ==
    LET audio == Contains(video_url, <<".","m","4","a">>) \/ Contains(video_url, <<".","m","p","3">>)
    IN  [url         |-> video_url,
         ext         |-> IF audio THEN <<"m","4","a">> ELSE <<"m","p","4">>,
         format_note |-> <<"D","e","f","a","u","l","t">>,
         filesize    |-> <<0>>,
         has_audio   |-> TRUE,
         type        |-> IF audio THEN <<"a","u","d","i","o">> ELSE <<"v","i","d","e","o">>]

\* line 74: the placeholder title (a non-ASCII literal in the source)
DefaultKgTitle == <<"K","G"," ","v","i","d","e","o">>

\* the two fields joined the other way round
KgTitleContentFirst(nick_match, content_match) ==
    IF content_match.matched /\ nick_match.matched
    THEN content_match.group \o <<" ","-"," ">> \o nick_match.group
    ELSE IF content_match.matched THEN content_match.group
    ELSE IF nick_match.matched THEN nick_match.group
    ELSE DefaultKgTitle

\* lines 93-98: the title from nick and content
KgTitle(nick_match, content_match) ==
    IF content_match.matched /\ nick_match.matched
    THEN nick_match.group \o <<" ","-"," ">> \o content_match.group
    ELSE IF content_match.matched THEN content_match.group
    ELSE IF nick_match.matched THEN nick_match.group
    ELSE DefaultKgTitle

\* lines 79-103: the structured path over window.__DATA__
KgStructured(content) ==
    LET data_match == Search(DataAt, content)
    IN  IF ~data_match.matched
        THEN [video_url |-> <<>>, title |-> DefaultKgTitle, thumbnail |-> <<>>]
        ELSE LET json_str      == data_match.group
                 playurl_match == Search(PlayurlFieldAt, json_str)
                 nick_match    == Search(NickFieldAt, json_str)
                 content_match == Search(ContentFieldAt, json_str)
                 cover_match   == Search(CoverFieldAt, json_str)
             IN  [video_url |-> IF playurl_match.matched
                                THEN playurl_match.group ELSE <<>>,
                  title     |-> KgTitle(nick_match, content_match),
                  thumbnail |-> IF cover_match.matched
                                THEN cover_match.group ELSE <<>>]

\* lines 109-122: the looser patterns, used when no play URL was found
KgLoose(content, st) ==
    LET m1 == Search(LoosePlayurlAt, content)
        play_url_match == IF m1.matched THEN m1 ELSE Search(SrcAt, content)
        title_match == Search(TitleTagAt, content)
    IN  [video_url |-> IF play_url_match.matched
                       THEN play_url_match.group ELSE st.video_url,
         title     |-> IF title_match.matched THEN title_match.group ELSE st.title,
         thumbnail |-> st.thumbnail]

\* the response of requests.get: a network error, or a status and a body
NetErr == [kind |-> "neterr", status |-> 0, text |-> <<>>]

Http(status, text) == [kind |-> "http", status |-> status, text |-> text]

\* requests.get raised, or raise_for_status() raises (4xx, 5xx)
Raises(r) == r.kind = "neterr" \/ r.status >= 400

get_kg_video_info(r) ==
    IF Raises(r) THEN None
    ELSE LET s1 == KgStructured(r.text)
             s2 == IF s1.video_url = <<>> THEN KgLoose(r.text, s1) ELSE s1
         IN  IF s2.video_url # <<>>
             THEN [title     |-> s2.title,
                   thumbnail |-> s2.thumbnail,
                   formats   |-> <<KgFormat(s2.video_url)>>]
             ELSE None

-----------------------------------------------------------------------------
(* Scraper B: get_bilibili_video_info_fallback                             *)

\* a response body that resp.json() cannot parse
NotJson == [tag |-> "NotJson"]

Has(d, k) == k \in DOMAIN d

\* r'(BV\w+)', tried at position i (\w+ is greedy)
BvAt(s, i) ==
    LET stop == {j \in (i + 2)..(Len(s) + 1) : j = Len(s) + 1 \/ ~IsWord(s[j])}
    IN  IF IsAt(s, <<"B","V">>, i) /\ MinOf(stop) > i + 2
        THEN Match(SubSeq(s, i, MinOf(stop) - 1))
        ELSE NoMatch

\* lines 190-198: the Format of one durl entry
BiliFormat(durl) ==
    [url         |-> durl.url,
     ext         |-> <<"m","p","4">>,
     format_note |-> <<"A","P","I"," ","F","a","l","l","b","a","c","k">>,
     filesize    |-> IF Has(durl, "size") THEN <<durl.size>> ELSE <<>>,
     format_id   |-> <<"a","p","i","_","m","p","4">>,
     has_audio   |-> TRUE,
     type        |-> <<"v","i","d","e","o">>]

\* lines 171-179: data['code'], data['message'], data['data'][...] raise
\* KeyError when the key is absent
InfoRaises(data) ==
    \/ data = NotJson
    \/ ~Has(data, "code")
    \/ (data.code # 0 /\ ~Has(data, "message"))
    \/ (data.code = 0 /\ ~Has(data, "data"))
    \/ (data.code = 0 /\ \E k \in {"title", "pic", "duration", "cid"} :
                             ~Has(data.data, k))

\* lines 185-198: play_resp.json(), play_data['code'], play_data['data'],
\* durl['url'] raise when the body is no JSON or the key is absent
PlayRaises(play_data) ==
    \/ play_data = NotJson
    \/ ~Has(play_data, "code")
    \/ (play_data.code = 0 /\ ~Has(play_data, "data"))
    \/ (play_data.code = 0 /\ Has(play_data.data, "durl")
          /\ \E i \in 1..Len(play_data.data.durl) :
                 ~Has(play_data.data.durl[i], "url"))

\* lines 187-198
BiliFormats(play_data) ==
    IF play_data.code = 0 /\ Has(play_data.data, "durl")
    THEN [i \in 1..Len(play_data.data.durl) |-> BiliFormat(play_data.data.durl[i])]
    ELSE <<>>

\* u: the URL; ir: the response of the page-info call; pr: the response of
\* the play-URL call (no raise_for_status() is applied to it, line 184)
get_bilibili_video_info_fallback(u, ir, pr) ==
    LET bvid_match == Search(BvAt, u)
    IN  IF ~bvid_match.matched THEN None
        ELSE IF Raises(ir) \/ InfoRaises(ir.text) THEN None
        ELSE IF ir.text.code # 0 THEN None
        ELSE IF pr.kind = "neterr" \/ PlayRaises(pr.text) THEN None
        ELSE [title       |-> ir.text.data.title,
              thumbnail   |-> ir.text.data.pic,
              duration    |-> ir.text.data.duration,
              webpage_url |-> <<"h","t","t","p","s",":","/","/","w","w","w",".","b","i","l","i","b","i","l","i",".","c","o","m","/","v","i","d","e","o","/">> \o bvid_match.group,
              formats     |-> BiliFormats(pr.text)]

-----------------------------------------------------------------------------
(* Generic extractor results, classification and ranking (lines 253-310)   *)

\* f.get(k): <<>> stands for None / an absent key
Get(f, k) == IF Has(f, k) THEN f[k] ELSE <<>>

\* `a or b` on optional strings
Or(a, b) == IF a # <<>> THEN a ELSE b

\* lines 260-288: one raw format of the extractor, classified; <<>> when the
\* format has neither a video nor an audio codec and is dropped (the two
\* notes are non-ASCII literals in the source)
Classify(f) ==
    LET has_video == Get(f, "vcodec") # <<"n","o","n","e">>
        has_audio == Get(f, "acodec") # <<"n","o","n","e">>
        note == Or(Get(f, "format_note"), Or(Get(f, "resolution"), <<"u","n","k","n","o","w","n">>))
    IN  IF has_video
        THEN <<[url         |-> Get(f, "url"),
                ext         |-> Get(f, "ext"),
                format_note |-> IF has_audio THEN note ELSE note \o <<" ","(","n","o"," ","a","u","d","i","o",")">>,
                filesize    |-> Get(f, "filesize"),
                format_id   |-> Get(f, "format_id"),
                has_audio   |-> has_audio,
                type        |-> <<"v","i","d","e","o">>]>>
        ELSE IF has_audio
        THEN <<[url         |-> Get(f, "url"),
                ext         |-> Get(f, "ext"),
                format_note |-> <<"a","u","d","i","o"," ","o","n","l","y">>,
                filesize    |-> Get(f, "filesize"),
                format_id   |-> Get(f, "format_id"),
                has_audio   |-> TRUE,
                type        |-> <<"a","u","d","i","o">>]>>
        ELSE <<>>

RECURSIVE ClassifyAll(_)
ClassifyAll(raw) ==
    IF raw = <<>> THEN <<>>
    ELSE Classify(Head(raw)) \o ClassifyAll(Tail(raw))

\* lines 291-298: the Format built from the top-level URL of the result
TopLevelFormat(i) ==
    [url         |-> Get(i, "url"),
     ext         |-> IF Has(i, "ext") THEN i.ext ELSE <<"m","p","4">>,
     format_note |-> <<"D","e","f","a","u","l","t">>,
     filesize    |-> Get(i, "filesize"),
     has_audio   |-> TRUE]

\* line 302: key=lambda x: (x.get('has_audio', False), x.get('filesize') or 0)
SortKey(x) ==
    <<IF Has(x, "has_audio") THEN x.has_audio ELSE FALSE,
      IF Get(x, "filesize") = <<>> THEN 0 ELSE x.filesize[1]>>

\* tuple comparison: False < True, then the sizes
KeyLess(a, b) ==
    \/ (~a[1] /\ b[1])
    \/ (a[1] = b[1] /\ a[2] < b[2])

Reverse(s) == [i \in 1..Len(s) |-> s[Len(s) + 1 - i]]

\* x goes behind every element whose key is not greater (a stable insertion)
RECURSIVE InsertAsc(_, _)
InsertAsc(sorted, x) ==
    IF sorted = <<>> THEN <<x>>
    ELSE IF KeyLess(SortKey(x), SortKey(Head(sorted)))
         THEN <<x>> \o sorted
         ELSE <<Head(sorted)>> \o InsertAsc(Tail(sorted), x)

RECURSIVE SortAsc(_)
SortAsc(s) ==
    IF s = <<>> THEN <<>>
    ELSE InsertAsc(SortAsc(SubSeq(s, 1, Len(s) - 1)), s[Len(s)])

\* a sort that reverses an ascending sort: descending, but ties reversed
sort_reverse_unstable(formats) == Reverse(SortAsc(formats))

\* list.sort(key, reverse=True): the list is reversed, sorted stably in
\* ascending order and reversed again, so equal keys keep their order
sort_reverse(formats) == Reverse(SortAsc(Reverse(formats)))

\* lines 257-298: the classified formats of the extractor's result, or the
\* one Format of its top-level URL when none remains
Unranked(i) ==
    LET classified == IF Has(i, "formats") THEN ClassifyAll(i.formats) ELSE <<>>
    IN  IF classified = <<>> /\ Get(i, "url") # <<>>
        THEN <<TopLevelFormat(i)>>
        ELSE classified

\* lines 257-310: the response body built from the extractor's result
Normalize(i) ==
    [title       |-> Get(i, "title"),
     thumbnail   |-> Get(i, "thumbnail"),
     duration    |-> Get(i, "duration"),
     webpage_url |-> Get(i, "webpage_url"),
     formats     |-> sort_reverse(Unranked(i))]

-----------------------------------------------------------------------------
(* The environment: URLs, pages, API responses, extractor results          *)

MaxFormats == 3

SeqsUpTo(S, n) == UNION {[1..k -> S] : k \in 0..n}

Urls ==
    {<<"h","t","t","p",":","/","/","k","g",".","q","q",".","c","o","m","/","s">>,
     <<"h","t","t","p",":","/","/","b","i","l","i","b","i","l","i",".","c","o","m","/","B","V","1","x">>,
     <<"h","t","t","p",":","/","/","b","2","3",".","t","v","/","x">>,
     <<"h","t","t","p",":","/","/","t",".","c","o","/","v">>,
     <<"h","t","t","p",":","/","/","k","g",".","q","q",".","c","o","m","/","b","i","l","i","b","i","l","i",".","c","o","m","/","B","V","2","_">>}

\* a page-state field "key":"value" of the blob
Field(key, value) == <<"\"">> \o key \o <<"\"",":","\"">> \o value \o <<"\"">>

RECURSIVE Join(_)
Join(fields) ==
    IF fields = <<>> THEN <<>>
    ELSE IF Len(fields) = 1 THEN fields[1]
    ELSE fields[1] \o <<",">> \o Join(Tail(fields))

Blob(fields) == <<"w","i","n","d","o","w",".","_","_","D","A","T","A","_","_","=">> \o <<"{">> \o Join(fields) \o <<"}">>

PlayurlFields ==
    {<<>>,
     <<Field(<<"p","l","a","y","u","r","l">>, <<"h","t","t","p",":","/","/","x","/","a",".","m","p","4">>)>>,
     <<Field(<<"p","l","a","y","u","r","l">>, <<"h","t","t","p",":","/","/","x","/","a",".","m","4","a">>)>>,
     <<Field(<<"p","l","a","y","u","r","l">>, <<>>)>>}

NickFields == {<<>>, <<Field(<<"n","i","c","k">>, <<"B","o","b">>)>>}

ContentFields == {<<>>, <<Field(<<"c","o","n","t","e","n","t">>, <<"S","o","n","g">>)>>}

Blobs == {Blob(p \o n \o c) : p \in PlayurlFields, n \in NickFields, c \in ContentFields}

Prefixes == {<<>>, <<"w","i","n","d","o","w",".","_","_","D","A","T","A","_","_"," ","="," ","{","}",";">>, <<"<","t","i","t","l","e",">","T","<","/","t","i","t","l","e",">","\n">>}

Terminators == {<<>>, <<";">>}

Suffixes ==
    {<<>>,
     <<" ","v","a","r"," ","p","l","a","y","u","r","l"," ","="," ","'","h","t","t","p",":","/","/","y","/","b",".","m","p","3","'",";">>,
     <<"<","v","i","d","e","o"," ","s","r","c","=","\"","h","t","t","p",":","/","/","z","/","c",".","m","p","4","?","k","=","1","\"",">">>,
     <<"\"","c","o","v","e","r","\"",":","\"","h","t","t","p",":","/","/","c","/","i",".","j","p","g","\"","}",";">>}

Pages ==
    {a \o b \o t \o z : a \in Prefixes, b \in Blobs \cup {<<>>},
                        t \in Terminators, z \in Suffixes}

KgResponses == {NetErr, Http(404, <<>>)} \cup {Http(200, p) : p \in Pages}

\* the pages the /api/resolve and /api/download_merged models draw from
FewPages ==
    {<<>>,
     Blob(<<Field(<<"p","l","a","y","u","r","l">>, <<"h","t","t","p",":","/","/","x","/","a",".","m","p","4">>)>>) \o <<";">>,
     Blob(<<Field(<<"p","l","a","y","u","r","l">>, <<"h","t","t","p",":","/","/","x","/","a",".","m","p","4">>)>>),
     <<"p","l","a","y","u","r","l",":"," ","\"","h","t","t","p",":","/","/","y","/","b",".","m","p","3","\"">>}

FewKgResponses == {NetErr, Http(404, <<>>)} \cup {Http(200, p) : p \in FewPages}

VideoData == [title |-> <<"T">>, pic |-> <<"h","t","t","p",":","/","/","i","/","p",".","j","p","g">>, duration |-> 60, cid |-> 7]

InfoResponses ==
    {NetErr,
     Http(412, NotJson),
     Http(200, NotJson),
     Http(200, [code |-> -400, message |-> <<"b","a","d"," ","r","e","q","u","e","s","t">>]),
     Http(200, [code |-> -400]),
     Http(200, [code |-> 0]),
     Http(200, [code |-> 0, data |-> [title |-> <<"T">>]]),
     Http(200, [code |-> 0, data |-> VideoData])}

Durl1 == [url |-> <<"h","t","t","p",":","/","/","v","/","1",".","m","p","4">>, size |-> 10]

Durl2 == [url |-> <<"h","t","t","p",":","/","/","v","/","2",".","m","p","4">>, size |-> 20]

Durl3 == [url |-> <<"h","t","t","p",":","/","/","v","/","3",".","m","p","4">>]

DurlNoUrl == [size |-> 30]

\* the segment lists of the play-URL API
DurlLists ==
    {<<>>, <<Durl1>>, <<Durl3>>, <<Durl1, Durl2>>, <<Durl2, Durl1>>,
     <<Durl3, Durl1>>, <<DurlNoUrl>>, <<Durl1, DurlNoUrl>>}

PlayResponses ==
    {NetErr,
     Http(412, NotJson),
     Http(412, [code |-> -412, message |-> <<"r","e","q","u","e","s","t"," ","w","a","s"," ","b","a","n","n","e","d">>]),
     Http(200, [code |-> -404, message |-> <<"n","o","t"," ","f","o","u","n","d">>]),
     Http(200, [message |-> <<"n","o"," ","c","o","d","e">>]),
     Http(200, [code |-> 0]),
     Http(200, [code |-> 0, data |-> [quality |-> 64]])}
    \cup {Http(200, [code |-> 0, data |-> [durl |-> d]]) : d \in DurlLists}

\* raw formats of the extractor: <<vcodec, acodec, filesize>>
RawKinds ==
    {<<<<"a","v","c","1">>, <<"n","o","n","e">>, <<100>>>>,
     <<<<"a","v","c","1">>, <<"m","p","4","a">>, <<50>>>>,
     <<<<"a","v","c","1">>, <<"m","p","4","a">>, <<0>>>>,
     <<<<"a","v","c","1">>, <<"m","p","4","a">>, <<>>>>,
     <<<<"n","o","n","e">>, <<"m","p","4","a">>, <<50>>>>}

\* a format with neither codec (storyboards and the like)
NoCodecs == <<<<"n","o","n","e">>, <<"n","o","n","e">>, <<50>>>>

\* the raw format at position i of the extractor's list; format_id is the
\* position, so that every format of a result is distinct
Raw(kind, i) ==
    [url       |-> <<"h","t","t","p",":","/","/","g","/","f">>,
     ext       |-> <<"m","p","4">>,
     vcodec    |-> kind[1],
     acodec    |-> kind[2],
     filesize  |-> kind[3],
     format_id |-> i,
     format_note |-> IF kind[1] = <<"n","o","n","e">> THEN <<>> ELSE <<"7","2","0","p">>]

RawList(kinds) == [i \in 1..Len(kinds) |-> Raw(kinds[i], i)]

Meta == [title |-> <<"G">>, thumbnail |-> <<"h","t","t","p",":","/","/","g","/","t",".","j","p","g">>, duration |-> 30,
         webpage_url |-> <<"h","t","t","p",":","/","/","g","/","w">>]

WithFormats(fs) ==
    [title |-> Meta.title, thumbnail |-> Meta.thumbnail, duration |-> Meta.duration,
     webpage_url |-> Meta.webpage_url, formats |-> fs]

WithUrl(u) ==
    [title |-> Meta.title, thumbnail |-> Meta.thumbnail, duration |-> Meta.duration,
     webpage_url |-> Meta.webpage_url, url |-> u]

WithBoth(fs, u) ==
    [title |-> Meta.title, thumbnail |-> Meta.thumbnail, duration |-> Meta.duration,
     webpage_url |-> Meta.webpage_url, formats |-> fs, url |-> u]

\* what ydl.extract_info returns
GenericInfos ==
    {WithFormats(RawList(k)) : k \in SeqsUpTo(RawKinds, MaxFormats)}
    \cup {WithUrl(<<"h","t","t","p",":","/","/","g","/","d","i","r","e","c","t",".","m","p","4">>), Meta,
          WithFormats(RawList(<<NoCodecs>>)),
          WithFormats(RawList(<<NoCodecs, NoCodecs>>)),
          WithBoth(RawList(<<NoCodecs>>), <<"h","t","t","p",":","/","/","g","/","d","i","r","e","c","t",".","m","p","4">>),
          WithBoth(<<>>, <<"h","t","t","p",":","/","/","g","/","d","i","r","e","c","t",".","m","p","4">>)}

\* what ydl.extract_info raises
GenericErrors == {<<"E","R","R","O","R",":"," ","U","n","s","u","p","p","o","r","t","e","d"," ","U","R","L">>, <<"E","R","R","O","R",":"," ","H","T","T","P"," ","E","r","r","o","r"," ","4","1","2">>}

-----------------------------------------------------------------------------
(* /api/resolve: resolve_video (lines 216-315)                             *)

NoResponse == [status |-> 0]

Ok(body) == [status |-> 200, body |-> body]

HTTPException(status_code, detail) == [status |-> status_code, detail |-> detail]

\* a test that also asks for a non-empty format list, as lines 349 and 374
\* of download_merged do
TruthyWithFormats(i) == i # None /\ i.formats # <<>>

\* `if info:` (lines 225, 231): None is false, a dict with keys is true
Truthy(i) == i # None

IsKgUrl(u) == Contains(u, <<"k","g",".","q","q",".","c","o","m">>)

IsBiliUrl(u) == Contains(u, <<"b","i","l","i","b","i","l","i",".","c","o","m">>) \/ Contains(u, <<"b","2","3",".","t","v">>)

\* an entry of the log of strategy invocations: the strategy, the responses
\* it received from the network, and what it returned
Call(strategy, env, ret) == [strategy |-> strategy, env |-> env, ret |-> ret]

\* the requests Scraper B makes: none without a BV id, the play-URL call
\* only after a page-info call that passed
BiliEnv(u, ir, pr) ==
    IF ~Search(BvAt, u).matched THEN <<>>
    ELSE IF Raises(ir) \/ InfoRaises(ir.text) \/ ir.text.code # 0 THEN <<ir>>
    ELSE <<ir, pr>>

\* the failure reported as a server error, as line 438 does
ResolveError500(e) == HTTPException(500, e)

\* line 315: the failure of the generic extractor, as the caller sees it
ResolveError(e) == HTTPException(400, e)

Request ==
    /\ pc = "idle"
    /\ url' \in Urls
    /\ pc' = "kg"
    /\ calls' = <<>>
    /\ info' = None
    /\ response' = NoResponse
    /\ UNCHANGED <<title, safe_title, resp, dir, nreq>>

\* lines 223-226
TryKg ==
    /\ pc = "kg"
    /\ IF IsKgUrl(url)
       THEN \E r \in FewKgResponses :
              LET i == get_kg_video_info(r)
              IN  /\ info' = i
                  /\ calls' = Append(calls, Call("A", <<r>>, i))
                  /\ IF Truthy(i)
                     THEN response' = Ok(i) /\ pc' = "done"
                     ELSE response' = response /\ pc' = "bili"
       ELSE /\ pc' = "bili"
            /\ UNCHANGED <<info, calls, response>>
    /\ UNCHANGED <<url, title, safe_title, resp, dir, nreq>>

\* lines 228-232
TryBili ==
    /\ pc = "bili"
    /\ IF IsBiliUrl(url)
       THEN \E ir \in InfoResponses, pr \in PlayResponses :
              LET i == get_bilibili_video_info_fallback(url, ir, pr)
                  env == BiliEnv(url, ir, pr)
              IN  /\ Len(env) < 2 => pr = NetErr
                  /\ Len(env) < 1 => ir = NetErr
                  /\ info' = i
                  /\ calls' = Append(calls, Call("B", env, i))
                  /\ IF Truthy(i)
                     THEN response' = Ok(i) /\ pc' = "done"
                     ELSE response' = response /\ pc' = "generic"
       ELSE /\ pc' = "generic"
            /\ UNCHANGED <<info, calls, response>>
    /\ UNCHANGED <<url, title, safe_title, resp, dir, nreq>>

\* lines 253-310: extract_info returned
GenericReturns ==
    /\ pc = "generic"
    /\ \E g \in GenericInfos :
         LET i == Normalize(g)
         IN  /\ info' = i
             /\ calls' = Append(calls, Call("G", <<g>>, i))
             /\ response' = Ok(i)
    /\ pc' = "done"
    /\ UNCHANGED <<url, title, safe_title, resp, dir, nreq>>

\* lines 312-315: extract_info raised
GenericRaises ==
    /\ pc = "generic"
    /\ \E e \in GenericErrors :
         /\ calls' = Append(calls, Call("G", <<e>>, None))
         /\ response' = ResolveError(e)
    /\ pc' = "done"
    /\ UNCHANGED <<url, title, safe_title, resp, info, dir, nreq>>

\* the response is sent; the worker takes the next request
Respond ==
    /\ pc = "done"
    /\ pc' = "idle"
    /\ url' = <<>>
    /\ info' = None
    /\ calls' = <<>>
    /\ response' = NoResponse
    /\ UNCHANGED <<title, safe_title, resp, dir, nreq>>

Init ==
    /\ pc = "idle"
    /\ url = <<>>
    /\ title = <<>>
    /\ safe_title = <<>>
    /\ resp = NetErr
    /\ info = None
    /\ calls = <<>>
    /\ response = NoResponse
    /\ dir = {}
    /\ nreq = 0

Next == Request \/ TryKg \/ TryBili \/ GenericReturns \/ GenericRaises \/ Respond

Spec == Init /\ [][Next]_vars

-----------------------------------------------------------------------------
(* Scraper A alone, on every response of KgResponses                       *)

InitKg ==
    /\ pc = "kg_call"
    /\ resp \in KgResponses
    /\ url = <<"h","t","t","p",":","/","/","k","g",".","q","q",".","c","o","m","/","s">>
    /\ title = <<>>
    /\ safe_title = <<>>
    /\ info = None
    /\ calls = <<>>
    /\ response = NoResponse
    /\ dir = {}
    /\ nreq = 0

KgScrape ==
    /\ pc = "kg_call"
    /\ info' = get_kg_video_info(resp)
    /\ pc' = "kg_ret"
    /\ UNCHANGED <<url, title, safe_title, resp, calls, response, dir, nreq>>

NextKg == KgScrape

SpecKg == InitKg /\ [][NextKg]_vars

-----------------------------------------------------------------------------
(* The filename sanitizer of download_merged (lines 332-335)               *)

\* the blacklist of the superseded line 327: only \ / * ? : " < > | go
NotBlacklisted(c) == c \notin {"\\", "/", "*", "?", ":", "\"", "<", ">", "|"}

\* line 332: c.isalpha() or c.isdigit() or c in (' ', '-', '_', '.')
Allowed(c) == isalpha(c) \/ isdigit(c) \/ c \in {" ", "-", "_", "."}

\* the list comprehension of line 332, joined
RECURSIVE Keep(_)
Keep(s) ==
    IF s = <<>> THEN <<>>
    ELSE IF Allowed(Head(s)) THEN <<Head(s)>> \o Keep(Tail(s))
    ELSE Keep(Tail(s))

\* str.rstrip(): trailing whitespace removed
RECURSIVE rstrip(_)
rstrip(s) ==
    IF s # <<>> /\ IsSpace(s[Len(s)]) THEN rstrip(SubSeq(s, 1, Len(s) - 1)) ELSE s

\* lines 332-334
Sanitize(t) ==
    LET s == rstrip(Keep(t))
    IN  IF s = <<>> THEN <<"v","i","d","e","o">> ELSE s

MaxTitleLen == 3

TitleChars == {"a", "7", " ", "-", "_", ".", "/", "\\", "#"}

Titles == SeqsUpTo(TitleChars, MaxTitleLen) \cup {<<"M","y","/","V","i","d","e","o",":","T","e","s","t","*","2","0","2","4">>}

InitSanitize ==
    /\ pc = "san_call"
    /\ title \in Titles
    /\ safe_title = <<>>
    /\ url = <<>>
    /\ resp = NetErr
    /\ info = None
    /\ calls = <<>>
    /\ response = NoResponse
    /\ dir = {}
    /\ nreq = 0

SanitizeTitle ==
    /\ pc = "san_call"
    /\ safe_title' = Sanitize(title)
    /\ pc' = "san_ret"
    /\ UNCHANGED <<url, title, resp, info, calls, response, dir, nreq>>

NextSanitize == SanitizeTitle

SpecSanitize == InitSanitize /\ [][NextSanitize]_vars

-----------------------------------------------------------------------------
(* /api/download_merged: download_merged (lines 317-458)                   *)

MaxRequests == 2

DlUrls == {<<"h","t","t","p",":","/","/","k","g",".","q","q",".","c","o","m","/","s">>, <<"h","t","t","p",":","/","/","b","i","l","i","b","i","l","i",".","c","o","m","/","B","V","1","x">>, <<"h","t","t","p",":","/","/","t",".","c","o","/","v">>}

DlTitles == {<<"a">>, <<"a", "b">>, <<"/">>}

DlInfoResponses ==
    {NetErr,
     Http(200, [code |-> -400, message |-> <<"b","a","d"," ","r","e","q","u","e","s","t">>]),
     Http(200, [code |-> 0, data |-> VideoData])}

DlPlayResponses ==
    {NetErr,
     Http(412, [code |-> -412, message |-> <<"r","e","q","u","e","s","t"," ","w","a","s"," ","b","a","n","n","e","d">>]),
     Http(200, [code |-> 0, data |-> [durl |-> <<>>]]),
     Http(200, [code |-> 0, data |-> [durl |-> <<Durl1>>]]),
     Http(200, [code |-> 0, data |-> [durl |-> <<Durl2, Durl1>>]])}

\* what requests.get(direct_url, stream=True) or ydl.download raises
StreamErrors == {<<"C","o","n","n","e","c","t","i","o","n","E","r","r","o","r">>}

DownloadErrors == {<<"E","R","R","O","R",":"," ","U","n","s","u","p","p","o","r","t","e","d"," ","U","R","L">>}

\* urllib.parse.quote on one character: letters, digits and _ . - ~ / are
\* kept, a space becomes %20
QuoteChar(c) ==
    IF isalpha(c) \/ isdigit(c) \/ c \in {"_", ".", "-", "~", "/"} THEN <<c>>
    ELSE IF c = " " THEN <<"%","2","0">>
    ELSE IF c = "#" THEN <<"%","2","3">>
    ELSE IF c = ":" THEN <<"%","3","A">>
    ELSE IF c = "*" THEN <<"%","2","A">>
    ELSE <<"%","5","C">>

RECURSIVE quote(_)
quote(s) == IF s = <<>> THEN <<>> ELSE QuoteChar(Head(s)) \o quote(Tail(s))

\* line 335
Filename(stem) == stem \o <<".","m","p","4">>

\* lines 361-365, 383-387: the body of direct_url relayed, as an attachment
StreamingResponse(direct_url, filename) ==
    [status |-> 200, kind |-> "stream", url |-> direct_url,
     disposition |-> quote(filename)]

\* lines 450-454: the file served whole under its own name
FileResponse(target_file) ==
    [status |-> 200, kind |-> "file", path |-> target_file,
     disposition |-> target_file]

\* the outcome of requests.get(direct_url, stream=True)
Opened == [opened |-> TRUE]

Failed(e) == [opened |-> FALSE, error |-> e]

\* lines 349, 374: `info and info.get('formats')`
Resolved(i) == i # None /\ i.formats # <<>>

\* the streaming GET of Scraper A's URL raised, and the request goes on to
\* the download as it does for Scraper B (line 389)
OnKgStreamErrorFallThrough(e) == [pc |-> "dl_download", response |-> NoResponse]

\* lines 366-368: the streaming GET of Scraper A's URL raised
OnKgStreamError(e) ==
    [pc |-> "done", response |-> HTTPException(400, <<"S","t","r","e","a","m"," ","f","a","i","l","e","d",":"," ">> \o e)]

\* lines 388-389: the streaming GET of Scraper B's URL raised; only a print
OnBiliStreamError(e) == [pc |-> "dl_download", response |-> NoResponse]

\* str(e) of the HTTPException of line 438: "<status>: <detail>" where the
\* framework defines __str__, the empty string where it does not
StrOfNotFound == {<<"5","0","0",":"," ","D","o","w","n","l","o","a","d"," ","f","a","i","l","e","d",":"," ","f","i","l","e"," ","n","o","t"," ","f","o","u","n","d">>, <<>>}

\* the files a download for a stem may leave: the merged or best file, or
\* none; and after a failure a partial file or none
Completed(stem, ffmpeg) ==
    IF ffmpeg THEN {{}, {stem \o <<".","m","p","4">>}}
    ELSE {{}, {stem \o <<".","m","p","4">>}, {stem \o <<".","w","e","b","m">>}}

Aborted(stem) == {{}, {stem \o <<".","m","p","4",".","p","a","r","t">>}}

\* line 438 raises inside the try of line 421, so the handler of lines
\* 456-458 catches it and raises HTTPException(400, str(e))
NotFoundResponse(s) == HTTPException(400, s)

DlRequest ==
    /\ pc = "idle"
    /\ nreq < MaxRequests
    /\ nreq' = nreq + 1
    /\ url' \in DlUrls
    /\ title' \in DlTitles
    /\ safe_title' = Sanitize(title')
    /\ calls' = <<>>
    /\ info' = None
    /\ response' = NoResponse
    /\ pc' = "dl_remove"
    /\ UNCHANGED <<resp, dir>>

\* lines 339-343: os.remove(file_path), whose failure is passed over
DlRemove ==
    /\ pc = "dl_remove"
    /\ \/ dir' = dir \ {Filename(safe_title)}
       \/ dir' = dir
    /\ pc' = "dl_kg"
    /\ UNCHANGED <<url, title, safe_title, resp, info, calls, response, nreq>>

\* lines 347-368
DlKg ==
    /\ pc = "dl_kg"
    /\ IF IsKgUrl(url)
       THEN \E r \in FewKgResponses :
              LET i == get_kg_video_info(r)
              IN  /\ info' = i
                  /\ IF Resolved(i)
                     THEN \/ /\ calls' = calls \o <<Call("A", <<r>>, i),
                                                    Call("relay", <<i.formats[1].url>>, Opened)>>
                             /\ response' = StreamingResponse(i.formats[1].url,
                                                              Filename(safe_title))
                             /\ pc' = "done"
                          \/ \E e \in StreamErrors :
                             /\ calls' = calls \o <<Call("A", <<r>>, i),
                                                    Call("relay", <<i.formats[1].url>>, Failed(e))>>
                             /\ response' = OnKgStreamError(e).response
                             /\ pc' = OnKgStreamError(e).pc
                     ELSE /\ calls' = Append(calls, Call("A", <<r>>, i))
                          /\ response' = response
                          /\ pc' = "dl_bili"
       ELSE /\ pc' = "dl_bili"
            /\ UNCHANGED <<info, calls, response>>
    /\ UNCHANGED <<url, title, safe_title, resp, dir, nreq>>

\* lines 371-389
DlBili ==
    /\ pc = "dl_bili"
    /\ IF IsBiliUrl(url)
       THEN \E ir \in DlInfoResponses, pr \in DlPlayResponses :
              LET i == get_bilibili_video_info_fallback(url, ir, pr)
                  env == BiliEnv(url, ir, pr)
              IN  /\ Len(env) < 2 => pr = NetErr
                  /\ info' = i
                  /\ IF Resolved(i)
                     THEN \/ /\ calls' = calls \o <<Call("B", env, i),
                                                    Call("relay", <<i.formats[1].url>>, Opened)>>
                             /\ response' = StreamingResponse(i.formats[1].url,
                                                              Filename(safe_title))
                             /\ pc' = "done"
                          \/ \E e \in StreamErrors :
                             /\ calls' = calls \o <<Call("B", env, i),
                                                    Call("relay", <<i.formats[1].url>>, Failed(e))>>
                             /\ response' = OnBiliStreamError(e).response
                             /\ pc' = OnBiliStreamError(e).pc
                     ELSE /\ calls' = Append(calls, Call("B", env, i))
                          /\ response' = response
                          /\ pc' = "dl_download"
       ELSE /\ pc' = "dl_download"
            /\ UNCHANGED <<info, calls, response>>
    /\ UNCHANGED <<url, title, safe_title, resp, dir, nreq>>

\* lines 391-425, ydl.download returned: the format policy follows ffmpeg
DlDownloadReturns ==
    /\ pc = "dl_download"
    /\ \E ffmpeg \in BOOLEAN :
         \E files \in Completed(safe_title, ffmpeg) :
            /\ dir' = dir \cup files
            /\ calls' = Append(calls,
                   Call("G", <<IF ffmpeg THEN <<"b","e","s","t","v","i","d","e","o","+","b","e","s","t","a","u","d","i","o","/","b","e","s","t">> ELSE <<"b","e","s","t">>>>,
                        [files |-> files]))
    /\ pc' = "dl_locate"
    /\ UNCHANGED <<url, title, safe_title, resp, info, response, nreq>>

\* lines 421-425, 456-458: ydl.download raised
DlDownloadRaises ==
    /\ pc = "dl_download"
    /\ \E e \in DownloadErrors, files \in Aborted(safe_title) :
            /\ dir' = dir \cup files
            /\ calls' = Append(calls, Call("G", <<e>>, None))
            /\ response' = HTTPException(400, e)
    /\ pc' = "done"
    /\ UNCHANGED <<url, title, safe_title, resp, info, nreq>>

\* lines 431-454: os.listdir lists in any order, the first match is served
DlLocateFound ==
    /\ pc = "dl_locate"
    /\ \E f \in dir :
         /\ startswith(f, safe_title)
         /\ response' = FileResponse(f)
    /\ pc' = "done"
    /\ UNCHANGED <<url, title, safe_title, resp, info, calls, dir, nreq>>

\* lines 437-438, 456-458: no file of the directory starts with the stem
DlLocateNotFound ==
    /\ pc = "dl_locate"
    /\ \A f \in dir : ~startswith(f, safe_title)
    /\ \E s \in StrOfNotFound : response' = NotFoundResponse(s)
    /\ pc' = "done"
    /\ UNCHANGED <<url, title, safe_title, resp, info, calls, dir, nreq>>

\* the response is sent; the files stay in the directory (lines 442-448)
DlRespond ==
    /\ pc = "done"
    /\ pc' = "idle"
    /\ url' = <<>>
    /\ title' = <<>>
    /\ safe_title' = <<>>
    /\ info' = None
    /\ calls' = <<>>
    /\ response' = NoResponse
    /\ UNCHANGED <<resp, dir, nreq>>

NextDownload ==
    \/ DlRequest \/ DlRemove \/ DlKg \/ DlBili
    \/ DlDownloadReturns \/ DlDownloadRaises
    \/ DlLocateFound \/ DlLocateNotFound \/ DlRespond

SpecDownload == Init /\ [][NextDownload]_vars

-----------------------------------------------------------------------------
(* Properties of /api/resolve                                              *)

Invoked(s) == {k \in 1..Len(calls) : calls[k].strategy = s}

Scrapers == {"A", "B"}

\* C1: a matching scraper is invoked before the generic extractor; the
\* generic extractor is invoked only after every matching scraper was
\* invoked and returned None, and never once a scraper has succeeded.
C1_ScrapersBeforeGeneric ==
    /\ \A g \in Invoked("G") :
         /\ IsKgUrl(url) => \E a \in Invoked("A") : a < g
         /\ IsBiliUrl(url) => \E b \in Invoked("B") : b < g
         /\ \A k \in 1..(g - 1) : calls[k].strategy \in Scrapers /\ calls[k].ret = None
    /\ \A k \in 1..Len(calls) :
         (calls[k].strategy \in Scrapers /\ calls[k].ret # None) => Invoked("G") = {}
    /\ (pc = "done" /\ (IsKgUrl(url) \/ IsBiliUrl(url))) => calls[1].strategy \in Scrapers
    /\ (pc = "done" /\ ~IsKgUrl(url) /\ ~IsBiliUrl(url)) => calls[1].strategy = "G"

\* a request for a Scraper A URL that fell back: A returned None, then the
\* generic extractor ran
C1_Witness ==
    /\ pc = "done"
    /\ IsKgUrl(url)
    /\ Len(calls) = 2
    /\ calls[1].strategy = "A" /\ calls[1].ret = None
    /\ calls[2].strategy = "G"

\* C2: /api/resolve ends with HTTP 400 and a non-empty detail or with a
\* success whose formats are not empty; a Scraper B play-URL call that
\* yields no URL makes its result None.
C2_NeverEmptySuccess ==
    /\ response.status = 400 => response.detail # <<>>
    /\ response.status = 200 => response.body.formats # <<>>
    /\ \A k \in Invoked("B") : calls[k].ret # None => calls[k].ret.formats # <<>>

\* C3: every Format of a successful response has a non-empty url, a boolean
\* has_audio and a type that is "video" or "audio".
C3_FormatWellFormed ==
    response.status = 200 =>
        \A i \in 1..Len(response.body.formats) :
            LET f == response.body.formats[i]
            IN  /\ Has(f, "url") /\ f.url # <<>>
                /\ Has(f, "has_audio") /\ f.has_audio \in BOOLEAN
                /\ Has(f, "type") /\ f.type \in {<<"v","i","d","e","o">>, <<"a","u","d","i","o">>}

\* the keys of a format list never increase
Descending(fs) ==
    \A i, j \in 1..Len(fs) : i < j => ~KeyLess(SortKey(fs[i]), SortKey(fs[j]))

\* formats of equal key are in the order of their positions in the
\* extractor's list (format_id)
TiesInOrder(fs) ==
    \A i, j \in 1..Len(fs) :
        (i < j /\ SortKey(fs[i]) = SortKey(fs[j])) => fs[i].format_id < fs[j].format_id

ByGeneric == pc = "done" /\ response.status = 200 /\ calls[Len(calls)].strategy = "G"

ByScraperB == pc = "done" /\ response.status = 200 /\ calls[Len(calls)].strategy = "B"

NonOk(r) == r.kind = "neterr" \/ r.status < 200 \/ r.status > 299

\* the failures of a scraper call: a network error or a non-2xx response of
\* one of its requests, no BV id in the URL, a body that is no JSON or lacks
\* a field, a page-info response with code # 0
ScraperFailed(c) ==
    \/ \E i \in 1..Len(c.env) : NonOk(c.env[i])
    \/ /\ c.strategy = "B"
       /\ \/ Len(c.env) = 0
          \/ (Len(c.env) >= 1 /\ c.env[1].kind = "http"
                /\ (InfoRaises(c.env[1].text) \/ c.env[1].text.code # 0))
          \/ (Len(c.env) = 2 /\ c.env[2].kind = "http" /\ PlayRaises(c.env[2].text))

\* C5: a scraper call that failed returns None, and the request goes on to
\* the next strategy: the generic extractor, unless a later scraper
\* returned a result.
C5_FailureIsNone ==
    \A k \in 1..Len(calls) :
        (calls[k].strategy \in Scrapers /\ ScraperFailed(calls[k])) =>
            /\ calls[k].ret = None
            /\ pc = "done" =>
                 \E g \in (k + 1)..Len(calls) :
                     calls[g].strategy = "G" \/ calls[g].ret # None

\* C6: each strategy is invoked at most once in a request; when the generic
\* extractor raises, the request ends with HTTP 400 whose detail is the
\* error text, and that invocation is the last one.
C6_AtMostOnce ==
    /\ \A s \in {"A", "B", "G"} : Cardinality(Invoked(s)) <= 1
    /\ \A g \in Invoked("G") :
         calls[g].ret = None =>
             /\ g = Len(calls)
             /\ pc = "done"
             /\ response = HTTPException(400, calls[g].env[1])
             /\ response.detail \in GenericErrors

\* all three strategies were invoked, the generic extractor raised
C6_Witness ==
    /\ pc = "done"
    /\ response.status = 400
    /\ Len(calls) = 3
    /\ calls[3].strategy = "G" /\ calls[3].ret = None

-----------------------------------------------------------------------------
(* Properties of Scraper A                                                 *)

ClaimBlob ==
    Blob(<<Field(<<"p","l","a","y","u","r","l">>, <<"h","t","t","p",":","/","/","x","/","a",".","m","p","4">>), Field(<<"n","i","c","k">>, <<"B","o","b">>),
           Field(<<"c","o","n","t","e","n","t">>, <<"S","o","n","g">>)>>)

\* the expected result: title "Bob - Song", one video Format, mp4
IsBobSong(i) ==
    /\ i # None
    /\ i.title = <<"B","o","b"," ","-"," ","S","o","n","g">>
    /\ Len(i.formats) = 1
    /\ i.formats[1].type = <<"v","i","d","e","o">>
    /\ i.formats[1].ext = <<"m","p","4">>
    /\ i.formats[1].url = <<"h","t","t","p",":","/","/","x","/","a",".","m","p","4">>

Fetched == pc = "kg_ret" /\ resp.kind = "http" /\ resp.status < 400

\* C8, as claimed: a page whose text contains the blob yields "Bob - Song"
\* and one video/mp4 Format.
C8_ContainsBlob ==
    (Fetched /\ Contains(resp.text, ClaimBlob)) => IsBobSong(info)

\* the first window.__DATA__ of the page starts the blob, and ';' follows
\* the blob's closing brace
FirstDataIsBlob(text) ==
    LET p == FirstPos(text, <<"w","i","n","d","o","w",".","_","_","D","A","T","A","_","_">>, 1)
    IN  p # 0 /\ IsAt(text, ClaimBlob \o <<";">>, p)

\* C8, amended: when the first window.__DATA__ assignment of the page is the
\* blob followed by ';', the result is "Bob - Song" with one video/mp4
\* Format of the play URL.
C8_TerminatedBlob ==
    (Fetched /\ FirstDataIsBlob(resp.text)) => IsBobSong(info)

\* such a page, with text after the blob
C8_Witness ==
    /\ Fetched
    /\ FirstDataIsBlob(resp.text)
    /\ Len(resp.text) > Len(ClaimBlob) + 1
    /\ IsBobSong(info)

-----------------------------------------------------------------------------
(* Properties of the filename sanitizer                                    *)

Spaces(n) == [i \in 1..n |-> " "]

\* the characters of t that are letters, digits, ' ', '-', '_' or '.'
Retained(t) ==
    SelectSeq(t, LAMBDA c : c \in Letters \cup Digits \cup {" ", "-", "_", "."})

\* C10: the stem holds only letters, digits, ' ', '-', '_' and '.', which
\* are those of the title in their order (less the trailing spaces); it is
\* "video" when nothing remains, never empty, and holds no path separator;
\* "My/Video:Test*2024" yields "MyVideoTest2024".
C10_SafeTitle ==
    pc = "san_ret" =>
        /\ safe_title # <<>>
        /\ \A i \in 1..Len(safe_title) :
             /\ safe_title[i] \in Letters \cup Digits \cup {" ", "-", "_", "."}
             /\ safe_title[i] \notin {"/", "\\"}
        /\ safe_title[Len(safe_title)] # " "
        /\ IF \A i \in 1..Len(Retained(title)) : Retained(title)[i] = " "
           THEN safe_title = <<"v","i","d","e","o">>
           ELSE \E n \in 0..Len(title) : safe_title \o Spaces(n) = Retained(title)
        /\ title = <<"M","y","/","V","i","d","e","o",":","T","e","s","t","*","2","0","2","4">> => safe_title = <<"M","y","V","i","d","e","o","T","e","s","t","2","0","2","4">>

\* a title of which characters were dropped and others kept
C10_Witness ==
    /\ pc = "san_ret"
    /\ Len(title) = 3
    /\ title[1] = "/"
    /\ title[3] = " "
    /\ safe_title = <<"a">>

-----------------------------------------------------------------------------
(* Properties of /api/download_merged                                      *)

IsRelayOf(r, u) == r.status = 200 /\ Has(r, "kind") /\ r.kind = "stream" /\ r.url = u

ResolvedCalls ==
    {k \in 1..Len(calls) : calls[k].strategy \in Scrapers /\ Resolved(calls[k].ret)}

\* C7, as claimed: when a scraper resolves the URL to a result with a
\* Format, the download step is not invoked and the response is the relay
\* of the first Format's URL.
C7_ResolvedMeansRelay ==
    \A k \in ResolvedCalls :
        /\ Invoked("G") = {}
        /\ pc = "done" => IsRelayOf(response, calls[k].ret.formats[1].url)

\* C7, amended: when a scraper resolves the URL to a result with a Format,
\* the streaming GET of the first Format's URL comes next; once it is opened
\* the response is that relay and the download step is not invoked; when it
\* raises, a Scraper A request ends with HTTP 400 "Stream failed: ..." and
\* no download step, and a Scraper B request goes on to the download step.
C7_RelayUnlessStreamFails ==
    \A k \in ResolvedCalls :
        /\ k < Len(calls)
        /\ calls[k + 1].strategy = "relay"
        /\ calls[k + 1].env[1] = calls[k].ret.formats[1].url
        /\ calls[k + 1].ret.opened =>
             /\ Invoked("G") = {}
             /\ pc = "done"
             /\ IsRelayOf(response, calls[k].ret.formats[1].url)
        /\ (~calls[k + 1].ret.opened /\ calls[k].strategy = "A") =>
             /\ Invoked("G") = {}
             /\ pc = "done"
             /\ response = HTTPException(400, <<"S","t","r","e","a","m"," ","f","a","i","l","e","d",":"," ">> \o calls[k + 1].ret.error)
        /\ (~calls[k + 1].ret.opened /\ calls[k].strategy = "B") =>
             /\ pc \in {"dl_download", "dl_locate", "done"}
             /\ pc # "dl_download" => Invoked("G") # {}

\* Scraper B resolved the URL and its first URL is relayed
C7_Witness ==
    /\ pc = "done"
    /\ Len(calls) = 2
    /\ calls[1].strategy = "B"
    /\ Len(calls[1].ret.formats) = 2
    /\ calls[2].ret.opened
    /\ IsRelayOf(response, Durl2.url)

\* C9: when the download completes and no file of the directory starts with
\* the stem, the caller receives HTTP 500 "Download failed: file not found".
C9_NotFoundIs500 ==
    (/\ pc = "done"
     /\ \E g \in Invoked("G") : calls[g].ret # None
     /\ \A f \in dir : ~startswith(f, safe_title))
    => response = HTTPException(500, <<"D","o","w","n","l","o","a","d"," ","f","a","i","l","e","d",":"," ","f","i","l","e"," ","n","o","t"," ","f","o","u","n","d">>)

\* the names a download for a stem writes: outtmpl is <stem>.%(ext)s
WrittenFor(stem) ==
    UNION (Completed(stem, TRUE) \cup Completed(stem, FALSE) \cup Aborted(stem))

\* C11: a fetch-and-merge request with stem S whose download completed
\* serves a file written by a download for stem S, never a file that a
\* request with another stem left in the directory.
C11_ServesOwnStem ==
    (/\ pc = "done"
     /\ \E g \in Invoked("G") : calls[g].ret # None
     /\ Has(response, "kind")
     /\ response.kind = "file")
    => response.path \in WrittenFor(safe_title)

\* C11, second half: nothing but S.mp4 leaves the directory, and that only
\* before the download.
C11_OnlyStemMp4Removed ==
    [][/\ dir \ dir' \subseteq {Filename(safe_title)}
       /\ dir \ dir' # {} => pc = "dl_remove"]_vars

=============================================================================
